---- MODULE Spec2Model ----
(***************************************************************************)
(* A model of src/bot.py (reddit_bot): the daily character budget          *)
(* (check_budget / tally), the generation pipelines (make_post,            *)
(* build_post, generate_reply, make_comment), the two watchers and the     *)
(* posting scheduler, which run as three threads over the same object.     *)
(*                                                                         *)
(* A step of a thread is one access to a field shared between threads      *)
(* (today, tally, comments_made) together with the thread-local code that  *)
(* follows it up to the next such access.  Texts are sequences of          *)
(* one-character strings; clean_text and bad_keyword are computed on them. *)
(***************************************************************************)
EXTENDS Integers, Sequences, FiniteSets, TLC

\* ------------------------------------------------------------------ bounds
MaxItems == 2
MaxDay == 1
MaxBatch == 2
MaxDepth == 3
MaxText == 3
MaxPhrase == 4

\* ------------------------------------------------- lengths of the templates
PostTagLen == 6
TitleTemplateLen == 31
BodyTemplateLen == 12
ReplyTemplateLen == 14
CommentLineLen == 17
PostLineLen == 24
ImageLineLen == 28
CommentTemplateLen == 16
CaptionPrefixLen == 13
WordCeiling == 1000
TitleMax == 300

Threads == {"sub", "inbox", "writer"}

\* ------------------------------------------------------------------- texts
Quote == "\""
Newline == "\n"
Terminators == {".", "!", "?"}
WordChars == {"k", "K", "a"}

Lower(c) == IF c = "K" THEN "k" ELSE c

Prefix(s, n) == SubSeq(s, 1, n)

\* str.find / str.rfind of one character: a 1-based position, 0 for Python's -1
Find(s, c) == IF \E i \in 1..Len(s) : s[i] = c
              THEN CHOOSE i \in 1..Len(s) : s[i] = c /\ \A j \in 1..(i-1) : s[j] # c
              ELSE 0

RFind(s, c) == IF \E i \in 1..Len(s) : s[i] = c
               THEN CHOOSE i \in 1..Len(s) : s[i] = c /\ \A j \in (i+1)..Len(s) : s[j] # c
               ELSE 0

HasTerminator(s) == \E i \in 1..Len(s) : s[i] \in Terminators

\* re.split(r'[?.!]', s)[-1]: what follows the last terminator
LastFragment(s) ==
  LET last == CHOOSE i \in 1..Len(s) :
                s[i] \in Terminators /\ \A j \in (i+1)..Len(s) : s[j] \notin Terminators
  IN SubSeq(s, last + 1, Len(s))

OccursAt(s, part, i) ==
  /\ i + Len(part) - 1 <= Len(s)
  /\ \A j \in 1..Len(part) : s[i + j - 1] = part[j]

\* str.replace(part, ''): every non-overlapping occurrence, left to right
RECURSIVE RemoveFrom(_, _, _)
RemoveFrom(s, part, i) ==
  IF i > Len(s) THEN << >>
  ELSE IF OccursAt(s, part, i) THEN RemoveFrom(s, part, i + Len(part))
  ELSE << s[i] >> \o RemoveFrom(s, part, i + 1)

Replace(s, part) == IF part = << >> THEN s ELSE RemoveFrom(s, part, 1)

clean_text(generated_text) ==
  IF Find(generated_text, Quote) > 0
    THEN Prefix(generated_text, Find(generated_text, Quote) - 1)
  ELSE IF HasTerminator(generated_text)
    THEN Replace(generated_text, LastFragment(generated_text))
  ELSE IF RFind(generated_text, " ") > 0
    THEN Prefix(generated_text, RFind(generated_text, " "))
  ELSE << >>

\* build_post: a title is one line, generated_text[:rfind('\n')+1]
TitleLine(generated_text) ==
  IF RFind(generated_text, Newline) > 0
    THEN Prefix(generated_text, RFind(generated_text, Newline))
    ELSE generated_text

\* the keywords of _negative_keywords that the alphabet can spell
negative_keywords == { <<"k", "k", "k">> }

IsWord(s, i) == i >= 1 /\ i <= Len(s) /\ s[i] \in WordChars

\* a pattern without the two \b: the keyword anywhere in the text
BoundaryAnywhere(s, p) == TRUE

\* \b between positions p and p+1
Boundary(s, p) == IsWord(s, p) # IsWord(s, p + 1)

KeywordAt(s, kw, i) ==
  /\ i + Len(kw) - 1 <= Len(s)
  /\ \A j \in 1..Len(kw) : Lower(s[i + j - 1]) = Lower(kw[j])
  /\ Boundary(s, i - 1)
  /\ Boundary(s, i + Len(kw) - 1)

\* the list comprehension of bad_keyword: the keywords found in the text
bad_keyword(text) ==
  { kw \in negative_keywords : \E i \in 1..Len(text) : KeywordAt(text, kw, i) }

words_below(words, max_words) == ~(words > max_words)

\* ------------------------------------------------------------ configuration
\* self.config, as load_yaml returns it; post_textgen_model and topic_list are
\* kept as what the code tests of them (set or empty, number of topics), and
\* post_schedule as whether it holds a time
ConfigOf(budget, tries, linkonly, force, postmodel, levels, topics, schedule) ==
  [ character_budget |-> budget, post_tries |-> tries, linkpost_only |-> linkonly,
    post_schedule |-> schedule,
    force_top_reply |-> force, post_textgen_model |-> postmodel,
    max_levels |-> levels, topic_list |-> topics,
    toxicity_threshold |-> 50, topic_threshold |-> 50,
    bot_backstory |-> 2, bot_username |-> 1 ]

\* scores of the classifiers, in hundredths
Scores == {40, 50, 60}

\* ------------------------------------------------------------------- state
VARIABLES
  config,         \* self.config
  clock,          \* date.today(), the wall-clock day
  today,          \* self.today
  tally,          \* self.tally
  posts_seen, comments_seen, posts_made, comments_made,
  th,             \* per thread: pc, the locals of the running call, its events
  pulls,          \* items the streams have delivered and jobs the schedule has run
  charged,        \* sum of the costs added to tally since the clock's last change
  resets          \* resets of tally since the clock's last change

vars == << config, clock, today, tally, posts_seen, comments_seen, posts_made,
           comments_made, th, pulls, charged, resets >>

counters == << posts_seen, comments_seen, posts_made, comments_made >>
ledger == << today, tally, charged, resets >>

\* one event of a thread: a call it made or a result it got
Ev(e, n, t) == [ e |-> e, n |-> n, t |-> t ]

NoItem == [ kind |-> "none" ]

Idle == [ pc |-> "pull", site |-> "none", cost |-> 0, reg |-> 0, cur |-> NoItem,
          attempt |-> 0, prompt |-> "none", title |-> << >>, stringlist |-> << >>,
          log |-> << >> ]

Events(r, evs) == [ r EXCEPT !.log = @ \o evs ]

\* ------------------------------------------------------------ check_budget
\* the call check_budget(string) made from `s`, len(string) = c
EnterCheck(r, s, c) == [ r EXCEPT !.pc = "cb_date", !.site = s, !.cost = c ]

\* line 183: date.today() != self.today
CheckDate(t) ==
  /\ th[t].pc = "cb_date"
  /\ th' = [ th EXCEPT ![t].pc = IF clock # today THEN "cb_setday" ELSE "cb_cmp" ]
  /\ UNCHANGED << config, clock, ledger, counters, pulls >>

\* line 185: self.today = date.today()
SetToday(t) ==
  /\ th[t].pc = "cb_setday"
  /\ today' = clock
  /\ th' = [ th EXCEPT ![t].pc = "cb_reset" ]
  /\ UNCHANGED << config, clock, tally, charged, resets, counters, pulls >>

\* line 186: self.tally = 0
ResetTally(t) ==
  /\ th[t].pc = "cb_reset"
  /\ tally' = 0
  /\ resets' = resets + 1
  /\ th' = [ th EXCEPT ![t].pc = "cb_cmp" ]
  /\ UNCHANGED << config, clock, today, charged, counters, pulls >>

\* lines 187-191
WithinBudget(spent, character_cost, budget) == (spent + character_cost) < budget

\* self.tally += len(...): the read of the attribute
LoadTally(t) ==
  /\ th[t].pc = "charge_ld"
  /\ th' = [ th EXCEPT ![t].reg = tally, ![t].pc = "charge_st" ]
  /\ UNCHANGED << config, clock, ledger, counters, pulls >>

\* midnight
DayRollover ==
  /\ clock < MaxDay
  /\ clock' = clock + 1
  /\ charged' = 0
  /\ resets' = 0
  /\ UNCHANGED << config, today, tally, counters, th, pulls >>

\* --------------------------------------------------- what the platform holds
\* a submission: its author (me: the bot itself), title, body and whether a
\* comment of the bot is already among submission.comments
Submission(me, title, is_self, selftext, replied) ==
  [ kind |-> "submission", me |-> me, author |-> 2, title |-> title,
    is_self |-> is_self, selftext |-> selftext, replied |-> replied ]

\* an inbox item: a private message (was_comment false) or a comment reply.
\* body is the text bad_keyword reads; pad and words are the rest of a long
\* body: further characters and its word_tokenize count.  depth 1 is a comment
\* on the submission itself; anc is len(author.name) + len(body) of each
\* ancestor comment.
Message(shutdown) ==
  [ kind |-> "message", shutdown |-> shutdown ]

Comment(author, body, pad, words, replied, depth, post) ==
  [ kind |-> "comment", me |-> FALSE, author |-> author, name |-> 2, body |-> body,
    pad |-> pad, words |-> words, replied |-> replied, depth |-> depth, anc |-> 5,
    post |-> post ]

\* a comment whose author is the bot itself; watch_inbox never compares
\* comment.author with self.me
OwnComment(c) == [ c EXCEPT !.me = TRUE ]

ItemLen(it) == Len(it.body) + it.pad

\* describe_image: '' on an exception, else 'A picture of ' + the caption
Captions == { 0, CaptionPrefixLen + 3 }

\* --------------------------------------------------------- prompt building
\* lines 368-373, 415-420: the rendering of the submission
PostLine(post, caption) ==
  IF post.is_self
    THEN PostLineLen + post.author + Len(post.title) + Len(post.selftext)
    ELSE ImageLineLen + post.author + Len(post.title) + caption

\* lines 359-376: the walk up the thread, `level` in range(max_levels)
RECURSIVE ThreadWalk(_, _, _, _, _)
ThreadWalk(c, it, caption, level, prompt) ==
  IF level >= c.max_levels THEN [ at_top |-> FALSE, prompt |-> prompt ]
  ELSE LET line == CommentLineLen
                     + (IF level = 0 THEN it.name + ItemLen(it) ELSE it.anc)
           withItem == line + 1 + prompt
       IN IF level + 1 = it.depth
            THEN [ at_top |-> TRUE,
                   prompt |-> PostLine(it.post, caption) + 1 + withItem ]
            ELSE ThreadWalk(c, it, caption, level + 1, withItem)

\* lines 356-380 of generate_reply
ReplyPrompt(c, it, caption) ==
  LET w == ThreadWalk(c, it, caption, 0, ReplyTemplateLen + c.bot_username)
  IN [ at_top |-> w.at_top, len |-> c.bot_backstory + 1 + w.prompt ]

\* lines 414-421 of make_comment
CommentPrompt(c, post, caption) ==
  c.bot_backstory + 1 + PostLine(post, caption) + 1 + CommentTemplateLen + c.bot_username

\* lines 285-286 of build_post
TitlePrompt(c) == c.bot_backstory + 1 + TitleTemplateLen + c.bot_username

\* lines 323-324 of build_post
BodyPrompt(c, title) == TitlePrompt(c) + Len(title) + 1 + 1 + BodyTemplateLen

\* lines 476-479: post_string
PostString(post) ==
  IF post.is_self THEN Len(post.title) + 1 + Len(post.selftext) ELSE Len(post.title)

\* ------------------------------------------------------------- candidates
\* one generated text: what the backend returned, the score Perspective gives
\* the text the code sends it, and what extract_submission_from_generated_text
\* makes of it ("none", "title", "full")
Candidate(raw, score, extract) == [ raw |-> raw, score |-> score, extract |-> extract ]

\* the comparison of line 150 turned round
is_toxic_inverted(score, c) == score < c.toxicity_threshold

\* lines 147-153
is_toxic(score, c) == score > c.toxicity_threshold

\* lines 260, 312, 337: bad_keyword(text) or is_toxic(text)
KeywordThenToxic(text, score, c) ==
  IF bad_keyword(text) # {}
    THEN [ reject |-> TRUE, log |-> << Ev("bad_keyword", 1, text) >> ]
    ELSE [ reject |-> is_toxic(score, c),
           log |-> << Ev("bad_keyword", 0, text), Ev("is_toxic", score, text) >> ]

\* line 439: is_toxic(text) or bad_keyword(text)
ToxicThenKeyword(text, score, c) ==
  IF is_toxic(score, c)
    THEN [ reject |-> TRUE, log |-> << Ev("is_toxic", score, text) >> ]
    ELSE [ reject |-> bad_keyword(text) # {},
           log |-> << Ev("is_toxic", score, text),
                      Ev("bad_keyword", IF bad_keyword(text) # {} THEN 1 ELSE 0, text) >> ]

\* line 398: is_toxic(text) alone
ToxicOnly(text, score, c) ==
  [ reject |-> is_toxic(score, c), log |-> << Ev("is_toxic", score, text) >> ]

\* The loops over stringlist.  Each gives sel, the index of the candidate the
\* loop ends with (0: none), abort (a return None inside the loop) and the
\* calls made.

\* lines 258-266 of make_post, up to the first candidate that is submitted
RECURSIVE MakePostLoop(_, _, _)
MakePostLoop(batch, i, c) ==
  IF i > Len(batch) THEN [ sel |-> 0, abort |-> FALSE, log |-> << >> ]
  ELSE LET g == KeywordThenToxic(batch[i].raw, batch[i].score, c)
           rest == MakePostLoop(batch, i + 1, c)
       IN IF g.reject \/ batch[i].extract = "none"
            THEN [ rest EXCEPT !.log = g.log \o @ ]
            ELSE [ sel |-> i, abort |-> FALSE, log |-> g.log ]

\* lines 299-315 of build_post: post['title'] = cleanStr, no break
RECURSIVE TitleLoop(_, _, _, _)
TitleLoop(batch, i, c, sel) ==
  IF i > Len(batch) THEN [ sel |-> sel, abort |-> FALSE, log |-> << >> ]
  ELSE LET cleanStr == clean_text(TitleLine(batch[i].raw))
           g == KeywordThenToxic(cleanStr, batch[i].score, c)
       IN IF cleanStr = << >> \/ Len(cleanStr) > TitleMax
            THEN TitleLoop(batch, i + 1, c, sel)
          ELSE LET rest == TitleLoop(batch, i + 1, c, IF g.reject THEN sel ELSE i)
               IN [ rest EXCEPT !.log = g.log \o @ ]

\* lines 331-340 of build_post: an empty cleanStr returns None
RECURSIVE BodyLoop(_, _, _, _)
BodyLoop(batch, i, c, sel) ==
  IF i > Len(batch) THEN [ sel |-> sel, abort |-> FALSE, log |-> << >> ]
  ELSE LET cleanStr == clean_text(batch[i].raw)
           g == KeywordThenToxic(cleanStr, batch[i].score, c)
       IN IF cleanStr = << >>
            THEN [ sel |-> 0, abort |-> TRUE, log |-> << >> ]
          ELSE LET rest == BodyLoop(batch, i + 1, c, IF g.reject THEN sel ELSE i)
               IN [ rest EXCEPT !.log = g.log \o @ ]

\* lines 392-405 of generate_reply
RECURSIVE ReplyLoop(_, _, _)
ReplyLoop(batch, i, c) ==
  IF i > Len(batch) THEN [ sel |-> 0, abort |-> FALSE, log |-> << >> ]
  ELSE LET cleanStr == clean_text(batch[i].raw)
           g == ToxicOnly(cleanStr, batch[i].score, c)
       IN IF cleanStr = << >> THEN ReplyLoop(batch, i + 1, c)
          ELSE IF g.reject
            THEN [ ReplyLoop(batch, i + 1, c) EXCEPT !.log = g.log \o @ ]
          ELSE [ sel |-> i, abort |-> FALSE, log |-> g.log ]

\* lines 433-446 of make_comment: an empty cleanStr returns None
RECURSIVE CommentLoop(_, _, _)
CommentLoop(batch, i, c) ==
  IF i > Len(batch) THEN [ sel |-> 0, abort |-> FALSE, log |-> << >> ]
  ELSE LET cleanStr == clean_text(batch[i].raw)
           g == ToxicThenKeyword(cleanStr, batch[i].score, c)
       IN IF cleanStr = << >> THEN [ sel |-> 0, abort |-> TRUE, log |-> << >> ]
          ELSE IF g.reject
            THEN [ CommentLoop(batch, i + 1, c) EXCEPT !.log = g.log \o @ ]
          ELSE [ sel |-> i, abort |-> FALSE, log |-> g.log ]

\* ------------------------------------------------------- back to the loops
\* a pass of watch_inbox that ends without comment.mark_read()
BackUnmarked(t, r) ==
  [ r EXCEPT !.pc = "pull", !.cost = 0, !.reg = 0, !.attempt = 0 ]

\* the end of one pass of a watcher's loop, or of a scheduled job; watch_inbox
\* ends every pass but the shutdown with comment.mark_read().  The locals of
\* the call that returned are gone; what it handled and its events stay until
\* the next pass.
Back(t, r) ==
  LET done == [ r EXCEPT !.pc = "pull", !.cost = 0, !.reg = 0, !.attempt = 0 ]
  IN IF t = "inbox" THEN Events(done, << Ev("mark_read", 0, << >>) >>) ELSE done

\* generate_reply without the test of at_top of lines 377-379
EnterGenerateReplyUngrounded(t, r, caption) ==
  EnterCheck(r, "generate_reply", ReplyPrompt(config, r.cur, caption).len)

\* lines 352-383: generate_reply up to its check_budget
EnterGenerateReply(t, r, caption) ==
  LET p == ReplyPrompt(config, r.cur, caption)
  IN IF ~p.at_top THEN Back(t, Events(r, << Ev("discard", 0, << >>) >>))
     ELSE EnterCheck(
            IF r.cur.post.is_self THEN r
            ELSE Events(r, << Ev("describe_image", caption, << >>) >>),
            "generate_reply", p.len)

\* lines 408-422: make_comment up to its check_budget
EnterMakeComment(t, r, caption) ==
  EnterCheck(
    IF r.cur.is_self THEN r ELSE Events(r, << Ev("describe_image", caption, << >>) >>),
    "make_comment", CommentPrompt(config, r.cur, caption))

\* a caller that asks check_budget again after it returned False
DeclinedRetried(t, r) == EnterCheck(r, r.site, r.cost)

\* a caller that goes on after check_budget returned False
DeclinedIgnored(t, r) == [ r EXCEPT !.pc = "charge_ld" ]

\* what each caller does when check_budget returns False: lines 162-163,
\* 248-249, 288-289, 326-327, 382-383, 423-424, and the else of line 517
Declined(t, r) == Back(t, r)

\* what each caller does when check_budget returns True: the charge, but at
\* line 517, which goes on to words_below and on_topic
Admitted(t, r) ==
  IF r.site = "inbox517"
    THEN IF words_below(r.cur.words, WordCeiling)
           THEN EnterCheck(r, "on_topic", ItemLen(r.cur))
           ELSE Back(t, r)
    ELSE [ r EXCEPT !.pc = "charge_ld" ]

\* lines 187-191 and the caller's branch on the result
CompareBudget(t) ==
  /\ th[t].pc = "cb_cmp"
  /\ LET ok == WithinBudget(tally, th[t].cost, config.character_budget)
         r == Events(th[t], << Ev(IF ok THEN "admit" ELSE "decline", th[t].cost, << >>) >>)
     IN th' = [ th EXCEPT ![t] = IF ok THEN Admitted(t, r) ELSE Declined(t, r) ]
  /\ UNCHANGED << config, clock, ledger, counters, pulls >>

\* self.tally += len(...): the write of the attribute
StoreTally(t) ==
  /\ th[t].pc = "charge_st"
  /\ tally' = th[t].reg + th[t].cost
  /\ charged' = charged + th[t].cost
  /\ th' = [ th EXCEPT ![t] =
               [ Events(th[t], << Ev("charge", th[t].cost, << >>) >>)
                   EXCEPT !.pc = IF th[t].site = "on_topic" THEN "query" ELSE "gen" ] ]
  /\ UNCHANGED << config, clock, today, resets, counters, pulls >>

\* ----------------------------------------------------------------- on_topic
\* query(): nothing, or one score per topic
TopicResults(n) == { << >> } \cup [ 1..n -> Scores ]

\* lines 168-178
on_topic(results, c) ==
  /\ results # << >>
  /\ \E k \in 1..Len(results) : results[k] > c.topic_threshold

\* lines 165-178, and the caller's branch: lines 480-482, 525-526
TopicQuery(t) ==
  /\ th[t].pc = "query"
  /\ \E n \in (IF config.topic_list > 0 THEN { config.topic_list } ELSE 0..1) :
     \E results \in TopicResults(n) : \E caption \in Captions :
       LET r == Events(th[t], << Ev("query", 0, << >>) >>)
       IN th' = [ th EXCEPT ![t] =
                    IF ~on_topic(results, config) THEN Back(t, r)
                    ELSE IF t = "sub" THEN EnterMakeComment(t, r, caption)
                    ELSE EnterGenerateReply(t, r, caption) ]
  /\ UNCHANGED << config, clock, ledger, counters, pulls >>

\* ------------------------------------------------------------ the pipelines
GenText(r) == Ev("generate_text", r.cost, << >>)

\* lines 385-406 of generate_reply, up to comments_made += 1
GenerateReply(batches) ==
  /\ th["inbox"].pc = "gen"
  /\ th["inbox"].site = "generate_reply"
  /\ \E batch \in batches :
       LET r == [ Events(th["inbox"], << GenText(th["inbox"]) >>) EXCEPT !.stringlist = batch ]
           loop == ReplyLoop(batch, 1, config)
           tried == Events(r, loop.log)
       IN th' = [ th EXCEPT !["inbox"] =
                    IF batch = << >> THEN Back("inbox", r)
                    ELSE IF loop.sel = 0 THEN Back("inbox", tried)
                    ELSE [ Events(tried, << Ev("reply", 0, clean_text(batch[loop.sel].raw)) >>)
                             EXCEPT !.pc = "cm_ld" ] ]
  /\ UNCHANGED << config, clock, ledger, counters, pulls >>

\* lines 426-448 of make_comment, up to comments_made += 1
MakeComment(batches) ==
  /\ th["sub"].pc = "gen"
  /\ th["sub"].site = "make_comment"
  /\ \E batch \in batches :
       LET r == [ Events(th["sub"], << GenText(th["sub"]) >>) EXCEPT !.stringlist = batch ]
           loop == CommentLoop(batch, 1, config)
           tried == Events(r, loop.log)
       IN th' = [ th EXCEPT !["sub"] =
                    IF batch = << >> THEN Back("sub", r)
                    ELSE IF loop.sel = 0 THEN Back("sub", tried)
                    ELSE [ Events(tried, << Ev("reply", 0, clean_text(batch[loop.sel].raw)) >>)
                             EXCEPT !.pc = "cm_ld" ] ]
  /\ UNCHANGED << config, clock, ledger, counters, pulls >>

\* self.comments_made += 1, lines 403 and 444: the read
LoadComments(t) ==
  /\ th[t].pc = "cm_ld"
  /\ th' = [ th EXCEPT ![t].reg = comments_made, ![t].pc = "cm_st" ]
  /\ UNCHANGED << config, clock, ledger, counters, pulls >>

\* self.comments_made += 1: the write, and the return to the watcher
StoreComments(t) ==
  /\ th[t].pc = "cm_st"
  /\ comments_made' = th[t].reg + 1
  /\ th' = [ th EXCEPT ![t] = Back(t, th[t]) ]
  /\ UNCHANGED << config, clock, ledger, posts_seen, comments_seen, posts_made, pulls >>

\* an attempt of make_post that asks check_budget about an empty string
PostAttemptUncosted(r, n, link) ==
  EnterCheck([ r EXCEPT !.attempt = n, !.prompt = IF link THEN "sols" ELSE "soss" ],
             "make_post", 0)

\* lines 241-247: the start of an attempt of make_post
PostAttempt(r, n, link) ==
  EnterCheck([ r EXCEPT !.attempt = n, !.prompt = IF link THEN "sols" ELSE "soss" ],
             "make_post", PostTagLen)

\* lines 283-287: the start of an attempt of build_post
TitleAttempt(r, n) ==
  EnterCheck([ r EXCEPT !.attempt = n, !.prompt = "title", !.title = << >> ],
             "build_title", TitlePrompt(config))

\* lines 251-280 of make_post
MakePostGenerate(batches) ==
  /\ th["writer"].pc = "gen"
  /\ th["writer"].site = "make_post"
  /\ \E batch \in batches : \E link \in BOOLEAN : \E image \in BOOLEAN :
       LET w == th["writer"]
           r == [ Events(w, << GenText(w) >>) EXCEPT !.stringlist = batch ]
           loop == MakePostLoop(batch, 1, config)
           tried == Events(r, loop.log)
           posted == loop.sel > 0 /\ (w.prompt = "soss" \/ image)
       IN /\ th' = [ th EXCEPT !["writer"] =
                       IF batch = << >> THEN Back("writer", r)
                       ELSE IF loop.sel = 0
                         THEN IF w.attempt + 1 < config.post_tries
                                THEN PostAttempt(tried, w.attempt + 1, link)
                                ELSE Back("writer", tried)
                       ELSE IF w.prompt = "soss"
                         THEN Back("writer", Events(tried,
                                << Ev("submit", 0, batch[loop.sel].raw) >>))
                       ELSE IF image
                         THEN Back("writer", Events(tried,
                                << Ev("generate_image", 1, << >>),
                                   Ev("submit", 0, batch[loop.sel].raw) >>))
                       ELSE [ Events(tried, << Ev("generate_image", 0, << >>) >>)
                                EXCEPT !.pc = "crashed" ] ]
          /\ posts_made' = IF posted THEN posts_made + 1 ELSE posts_made
  /\ UNCHANGED << config, clock, ledger, posts_seen, comments_seen, comments_made, pulls >>

\* lines 291-327 of build_post: the title, then the link post or the prompt
\* of the body
BuildPostTitle(batches) ==
  /\ th["writer"].pc = "gen"
  /\ th["writer"].site = "build_title"
  /\ \E batch \in batches : \E link \in BOOLEAN : \E image \in BOOLEAN :
       LET w == th["writer"]
           r == [ Events(w, << GenText(w) >>) EXCEPT !.stringlist = batch ]
           loop == TitleLoop(batch, 1, config, 0)
           tried == Events(r, loop.log)
           title == clean_text(TitleLine(batch[loop.sel].raw))
       IN th' = [ th EXCEPT !["writer"] =
                    IF batch = << >> THEN Back("writer", r)
                    ELSE IF loop.sel = 0 THEN Back("writer", tried)
                    ELSE IF link
                      THEN IF ~image
                             THEN [ Events(tried, << Ev("generate_image", 0, << >>) >>)
                                      EXCEPT !.pc = "crashed" ]
                           ELSE LET sent == Events(tried,
                                      << Ev("generate_image", 1, << >>),
                                         Ev("submit", 0, title) >>)
                                IN IF w.attempt + 1 < config.post_tries
                                     THEN TitleAttempt(sent, w.attempt + 1)
                                     ELSE Back("writer", sent)
                    ELSE EnterCheck([ tried EXCEPT !.prompt = "body", !.title = title ],
                                    "build_body", BodyPrompt(config, title)) ]
  /\ UNCHANGED << config, clock, ledger, counters, pulls >>

\* lines 329-348 of build_post: the body and the text post
BuildPostBody(batches) ==
  /\ th["writer"].pc = "gen"
  /\ th["writer"].site = "build_body"
  /\ \E batch \in batches :
       LET w == th["writer"]
           r == [ Events(w, << GenText(w) >>) EXCEPT !.stringlist = batch ]
           loop == BodyLoop(batch, 1, config, 0)
           tried == Events(r, loop.log)
           selftext == IF loop.sel = 0 THEN << >> ELSE clean_text(batch[loop.sel].raw)
       IN /\ th' = [ th EXCEPT !["writer"] =
                       IF loop.abort THEN Back("writer", tried)
                       ELSE Back("writer", Events(tried,
                              << Ev("selftext", 0, selftext), Ev("submit", 0, w.title) >>)) ]
          /\ posts_made' = IF loop.abort THEN posts_made ELSE posts_made + 1
  /\ UNCHANGED << config, clock, ledger, posts_seen, comments_seen, comments_made, pulls >>

\* -------------------------------------------------- watchers and scheduler
\* lines 453-480 of watch_submissions: one submission of the stream
SubPull(items) ==
  /\ th["sub"].pc = "pull"
  /\ pulls < MaxItems
  /\ \E it \in items : \E caption \in Captions :
       LET r == [ Idle EXCEPT !.cur = it ]
       IN th' = [ th EXCEPT !["sub"] =
                    IF it.me THEN Back("sub", r)
                    ELSE IF bad_keyword(it.title) # {}
                            \/ (it.is_self /\ bad_keyword(it.selftext) # {})
                      THEN Back("sub", r)
                    ELSE IF config.linkpost_only = 2 /\ ~it.is_self
                      THEN EnterMakeComment("sub", r, caption)
                    ELSE IF config.linkpost_only = 1 /\ it.is_self THEN Back("sub", r)
                    ELSE IF it.replied THEN Back("sub", r)
                    ELSE EnterCheck(r, "on_topic", PostString(it)) ]
  /\ posts_seen' = posts_seen + 1
  /\ pulls' = pulls + 1
  /\ UNCHANGED << config, clock, ledger, comments_seen, posts_made, comments_made >>

\* lines 487-517 of watch_inbox: one item of the stream
InboxPull(items) ==
  /\ th["inbox"].pc = "pull"
  /\ pulls < MaxItems
  /\ \E it \in items : \E caption \in Captions :
       LET r == [ Idle EXCEPT !.cur = it ]
       IN /\ th' = [ th EXCEPT !["inbox"] =
                       IF it.kind = "message"
                         THEN IF it.shutdown THEN [ r EXCEPT !.pc = "exited" ]
                              ELSE Back("inbox", r)
                       ELSE IF ~it.author THEN Back("inbox", r)
                       ELSE IF bad_keyword(it.body) # {} THEN Back("inbox", r)
                       ELSE IF it.replied THEN Back("inbox", r)
                       ELSE IF it.depth = 1 /\ config.force_top_reply
                         THEN EnterGenerateReply("inbox", r, caption)
                       ELSE EnterCheck(r, "inbox517", ItemLen(it)) ]
          /\ comments_seen' = IF it.kind = "comment" THEN comments_seen + 1
                              ELSE comments_seen
  /\ pulls' = pulls + 1
  /\ UNCHANGED << config, clock, ledger, posts_seen, posts_made, comments_made >>

\* lines 530-538: schedule.run_pending() runs the job of a time of post_schedule
WriterFire ==
  /\ th["writer"].pc = "pull"
  /\ pulls < MaxItems
  /\ \E link \in BOOLEAN :
       th' = [ th EXCEPT !["writer"] =
                 IF config.post_textgen_model THEN PostAttempt(Idle, 0, link)
                 ELSE TitleAttempt(Idle, 0) ]
  /\ pulls' = pulls + 1
  /\ UNCHANGED << config, clock, ledger, counters >>

\* lines 540-554 of run: the threads that are started
Started(c) ==
  {"inbox"} \cup (IF c.post_schedule THEN {"writer"} ELSE {})
            \cup (IF c.topic_list > 0 THEN {"sub"} ELSE {})

\* lines 86-127 of __init__, then run
InitWith(configs) ==
  /\ config \in configs
  /\ clock = 0
  /\ today = 0
  /\ tally = 0
  /\ posts_seen = 0 /\ comments_seen = 0 /\ posts_made = 0 /\ comments_made = 0
  /\ th = [ t \in Threads |->
              IF t \in Started(config) THEN Idle ELSE [ Idle EXCEPT !.pc = "off" ] ]
  /\ pulls = 0
  /\ charged = 0
  /\ resets = 0

\* ------------------------------------------------------------------ inputs
TextOk == << "a", "." >>
TextKeyword == << "K", "k", "k", "." >>
TextInvalid == << "a" >>
TextPlain == << "a" >>

RECURSIVE SeqsUpTo(_, _)
SeqsUpTo(S, n) ==
  IF n = 0 THEN { << >> }
  ELSE LET shorter == SeqsUpTo(S, n - 1)
       IN shorter \cup { Append(q, x) : q \in { p \in shorter : Len(p) = n - 1 }, x \in S }

SelfPost == Submission(FALSE, TextPlain, TRUE, TextPlain, FALSE)
LinkPost == Submission(FALSE, TextPlain, FALSE, << >>, FALSE)

\* the threads together on one budget, over a day change.  run() starts the
\* submission watcher only with topics and the scheduler only with a schedule:
\* the two watchers on fifty-three characters, the inbox watcher with the scheduler
\* running build_post on a hundred, and the inbox watcher with the scheduler
\* running make_post twice over on nine.
RaceConfigs ==
  { ConfigOf(53, 1, 0, FALSE, TRUE, 1, 1, FALSE),
    ConfigOf(100, 1, 0, FALSE, FALSE, 1, 0, TRUE),
    ConfigOf(9, 2, 0, FALSE, TRUE, 1, 0, TRUE) }
RaceInbox == { Message(TRUE), Comment(TRUE, TextPlain, 0, 1, FALSE, 1, SelfPost) }
RaceSubs == { SelfPost }
RaceBatches ==
  SeqsUpTo({ Candidate(TextOk, 40, "full"), Candidate(TextOk, 60, "full") }, 1)

Init == InitWith(RaceConfigs)

Budget(t) ==
  \/ CheckDate(t)
  \/ SetToday(t)
  \/ ResetTally(t)
  \/ CompareBudget(t)
  \/ LoadTally(t)
  \/ StoreTally(t)

Watcher(t) ==
  \/ TopicQuery(t)
  \/ LoadComments(t)
  \/ StoreComments(t)

Next ==
  \/ \E t \in Threads : Budget(t) \/ Watcher(t)
  \/ DayRollover
  \/ InboxPull(RaceInbox)
  \/ SubPull(RaceSubs)
  \/ WriterFire
  \/ GenerateReply(RaceBatches)
  \/ MakeComment(RaceBatches)
  \/ MakePostGenerate(RaceBatches)
  \/ BuildPostTitle(RaceBatches)
  \/ BuildPostBody(RaceBatches)

Spec == Init /\ [][Next]_vars

\* ------------------------------------------------- one thread, all its inputs
TextOther == << "a", "!" >>
Texts == { TextOk, TextOther, TextKeyword, TextInvalid }
ReplyBatches == SeqsUpTo({ Candidate(x, sc, "none") : x \in Texts, sc \in Scores }, MaxBatch)
PostBatches ==
  SeqsUpTo({ Candidate(TextOk, 40, "full"), Candidate(TextOk, 40, "title"),
             Candidate(TextOk, 40, "none"), Candidate(TextOk, 60, "full"),
             Candidate(TextKeyword, 40, "full") }, MaxBatch)
BuildBatches ==
  SeqsUpTo({ Candidate(TextOk, 40, "none"), Candidate(TextOther, 40, "none"),
             Candidate(TextOk, 60, "none"), Candidate(TextKeyword, 40, "none"),
             Candidate(TextInvalid, 40, "none") }, MaxBatch)

Posts ==
  { Submission(me, title, is_self, TextPlain, replied) :
      me \in BOOLEAN, title \in { TextPlain, TextKeyword }, is_self \in BOOLEAN,
      replied \in BOOLEAN }

Comments ==
  { Comment(author, body, long[1], long[2], replied, depth, post) :
      author \in BOOLEAN, body \in { TextPlain, TextKeyword },
      long \in { << 0, 1 >>, << 3000, 1001 >> }, replied \in BOOLEAN,
      depth \in 1..2, post \in { SelfPost, LinkPost } }

\* the inbox watcher alone: no topics and no schedule (lines 542-554)
InboxConfigs ==
  { ConfigOf(budget, 2, 0, force, FALSE, levels, 0, FALSE) :
      budget \in { 60, 200 }, force \in BOOLEAN, levels \in 0..2 }

InitInbox == InitWith(InboxConfigs)

NextInbox ==
  \/ Budget("inbox")
  \/ Watcher("inbox")
  \/ DayRollover
  \/ InboxPull(Comments \cup { Message(TRUE), Message(FALSE) })
  \/ GenerateReply(ReplyBatches)

SpecInbox == InitInbox /\ [][NextInbox]_vars

\* the submission watcher while the inbox stays empty and nothing is scheduled
SubConfigs ==
  { ConfigOf(budget, 2, linkonly, FALSE, FALSE, 1, 1, FALSE) :
      budget \in { 40, 200 }, linkonly \in 0..2 }

InitSub == InitWith(SubConfigs)

NextSub ==
  \/ Budget("sub")
  \/ Watcher("sub")
  \/ DayRollover
  \/ SubPull(Posts)
  \/ MakeComment(ReplyBatches)

SpecSub == InitSub /\ [][NextSub]_vars

\* the scheduler while the inbox stays empty and there are no topics
WriterConfigs ==
  { ConfigOf(budget, tries, 0, FALSE, postmodel, 1, 0, TRUE) :
      budget \in { 40, 200 }, tries \in 1..2, postmodel \in BOOLEAN }

InitWriter == InitWith(WriterConfigs)

NextWriter ==
  \/ Budget("writer")
  \/ DayRollover
  \/ WriterFire
  \/ MakePostGenerate(PostBatches)
  \/ BuildPostTitle(BuildBatches)
  \/ BuildPostBody(BuildBatches)

SpecWriter == InitWriter /\ [][NextWriter]_vars

\* the inbox watcher over comment threads of every depth up to MaxDepth, with
\* a budget that admits the longest prompt
ThreadConfigs ==
  { ConfigOf(4000, 1, 0, force, FALSE, levels, 0, FALSE) :
      force \in BOOLEAN, levels \in 0..MaxDepth }

ThreadComments ==
  { Comment(TRUE, TextPlain, 0, 1, FALSE, depth, SelfPost) : depth \in 1..MaxDepth }
    \cup { Comment(TRUE, TextPlain, 0, 1, FALSE, 1, LinkPost),
           Comment(TRUE, TextPlain, 3000, 1001, FALSE, 1, SelfPost) }

ThreadItems ==
  ThreadComments \cup { OwnComment(Comment(TRUE, TextPlain, 0, 1, FALSE, 1, SelfPost)) }

ThreadBatches == SeqsUpTo({ Candidate(TextOk, 40, "none") }, 1)

InitThread == InitWith(ThreadConfigs)

NextThread ==
  \/ Budget("inbox")
  \/ Watcher("inbox")
  \/ DayRollover
  \/ InboxPull(ThreadItems)
  \/ GenerateReply(ThreadBatches)

SpecThread == InitThread /\ [][NextThread]_vars

\* the scheduler running make_post, alone, on a budget that admits one prompt,
\* two or all of them
PostConfigs ==
  { ConfigOf(budget, tries, 0, FALSE, TRUE, 1, 0, TRUE) :
      budget \in { 7, 13, 40 }, tries \in 1..2 }

PostOneBatches ==
  SeqsUpTo({ Candidate(TextOk, 40, "full"), Candidate(TextOk, 40, "title"),
             Candidate(TextOk, 40, "none"), Candidate(TextOk, 60, "full"),
             Candidate(TextKeyword, 40, "full") }, 1)

InitPost == InitWith(PostConfigs)

NextPost ==
  \/ Budget("writer")
  \/ DayRollover
  \/ WriterFire
  \/ MakePostGenerate(PostOneBatches)

SpecPost == InitPost /\ [][NextPost]_vars

\* clean_text on its own: every generated text of up to MaxText characters
\* of a letter, a terminator, a double quote and a space, as the one
\* candidate of a batch (lines 303-304, 331-332, 392-393, 433-434)
CleanChars == { "a", ".", Quote, " " }

CleanInputs == SeqsUpTo(CleanChars, MaxText)

InitClean ==
  /\ config = ConfigOf(40, 1, 0, FALSE, FALSE, 1, 0, TRUE)
  /\ clock = 0
  /\ today = 0
  /\ tally = 0
  /\ posts_seen = 0 /\ comments_seen = 0 /\ posts_made = 0 /\ comments_made = 0
  /\ \E generated_text \in CleanInputs :
       th = [ t \in Threads |->
                IF t = "writer"
                  THEN [ Idle EXCEPT !.pc = "clean",
                                     !.stringlist = << Candidate(generated_text, 40, "none") >> ]
                  ELSE [ Idle EXCEPT !.pc = "off" ] ]
  /\ pulls = 0
  /\ charged = 0
  /\ resets = 0

\* cleanStr = clean_text(generated_text)
CleanText ==
  /\ th["writer"].pc = "clean"
  /\ th' = [ th EXCEPT !["writer"].pc = "cleaned",
                        !["writer"].title = clean_text(th["writer"].stringlist[1].raw) ]
  /\ UNCHANGED << config, clock, ledger, counters, pulls >>

NextClean == CleanText

SpecClean == InitClean /\ [][NextClean]_vars

\* bad_keyword on its own: every text of up to MaxPhrase characters of the
\* letters of the keyword in both cases, another letter, a space and a full
\* stop, as the one candidate of a batch (lines 258-260)
PhraseChars == { "k", "K", "a", " ", "." }

PhraseInputs == SeqsUpTo(PhraseChars, MaxPhrase)

InitKeyword ==
  /\ config = ConfigOf(40, 1, 0, FALSE, TRUE, 1, 0, TRUE)
  /\ clock = 0
  /\ today = 0
  /\ tally = 0
  /\ posts_seen = 0 /\ comments_seen = 0 /\ posts_made = 0 /\ comments_made = 0
  /\ \E text \in PhraseInputs :
       th = [ t \in Threads |->
                IF t = "writer"
                  THEN [ Idle EXCEPT !.pc = "keyword",
                                     !.stringlist = << Candidate(text, 40, "full") >> ]
                  ELSE [ Idle EXCEPT !.pc = "off" ] ]
  /\ pulls = 0
  /\ charged = 0
  /\ resets = 0

\* self.bad_keyword(generated_text)
BadKeyword ==
  /\ th["writer"].pc = "keyword"
  /\ LET text == th["writer"].stringlist[1].raw
     IN th' = [ th EXCEPT !["writer"] =
                  [ Events(th["writer"],
                      << Ev("bad_keyword", IF bad_keyword(text) # {} THEN 1 ELSE 0, text) >>)
                    EXCEPT !.pc = "matched" ] ]
  /\ UNCHANGED << config, clock, ledger, counters, pulls >>

NextKeyword == BadKeyword

SpecKeyword == InitKeyword /\ [][NextKeyword]_vars

\* the inbox watcher over every kind of item it tells apart: private messages,
\* a comment of a deleted author, one with a negative keyword, one already
\* replied to, a top-level comment and a comment too deep for max_levels, on a
\* budget that declines and on one that admits
ReadConfigs ==
  { ConfigOf(budget, 1, 0, force, FALSE, 1, 0, FALSE) :
      budget \in { 2, 200 }, force \in BOOLEAN }

ReadItems ==
  { Message(FALSE), Message(TRUE),
    Comment(FALSE, TextPlain, 0, 1, FALSE, 1, SelfPost),
    Comment(TRUE, TextKeyword, 0, 1, FALSE, 1, SelfPost),
    Comment(TRUE, TextPlain, 0, 1, TRUE, 1, SelfPost),
    Comment(TRUE, TextPlain, 0, 1, FALSE, 1, SelfPost),
    Comment(TRUE, TextPlain, 0, 1, FALSE, 2, SelfPost) }

ReadBatches ==
  SeqsUpTo({ Candidate(TextOk, 40, "none"), Candidate(TextOk, 60, "none") }, 1)

InitRead == InitWith(ReadConfigs)

NextRead ==
  \/ Budget("inbox")
  \/ Watcher("inbox")
  \/ DayRollover
  \/ InboxPull(ReadItems)
  \/ GenerateReply(ReadBatches)

SpecRead == InitRead /\ [][NextRead]_vars

\* ------------------------------------------------------------------ claims
Log(t) == th[t].log
HasEvent(t, e) == \E i \in 1..Len(Log(t)) : Log(t)[i].e = e
Count(t, e) == Cardinality({ i \in 1..Len(Log(t)) : Log(t)[i].e = e })

\* C1: the costs charged within one calendar day never sum to more than
\* character_budget, whatever the interleaving of the threads; stated for the
\* day the bot starts on, when no check_budget call has met a change of day.
NoOverAdmission == clock = 0 => charged <= config.character_budget

\* C2: the tally is reset at most once for one change of the calendar day,
\* however many threads see the change in check_budget.
ResetOncePerDay == resets <= 1

\* C3: every check_budget call that returns True is followed by the charge of
\* exactly its cost, and one that returns False by no charge, at every call
\* site.
EveryAdmissionCharged ==
  \A t \in Threads : \A i \in 1..Len(Log(t)) :
    /\ Log(t)[i].e = "admit" =>
         IF i < Len(Log(t))
           THEN Log(t)[i + 1].e = "charge" /\ Log(t)[i + 1].n = Log(t)[i].n
           ELSE th[t].pc \in { "charge_ld", "charge_st" }
    /\ Log(t)[i].e = "decline" =>
         (i < Len(Log(t)) => Log(t)[i + 1].e # "charge")

\* C4: no step lowers the tally but the reset of check_budget, which sets it
\* to 0.
TallyLoweredOnlyByReset ==
  [][ \/ tally' >= tally
      \/ /\ tally' = 0
         /\ \E t \in Threads : th[t].pc = "cb_reset" /\ th'[t].pc = "cb_cmp" ]_vars

\* C5: every generate_text call of a thread comes, since its previous backend
\* or classifier call, after exactly one check_budget that returned True and one
\* charge, both of the length of the prompt it sends, in that order; and no
\* generate_text call follows a check_budget that returned False.
GenerationAdmittedOnce ==
  \A t \in Threads : \A i \in 1..Len(Log(t)) :
    /\ Log(t)[i].e = "generate_text" =>
         LET calls == { j \in 1..(i - 1) : Log(t)[j].e \in { "generate_text", "query" } }
             from == IF calls = {} THEN 0 ELSE CHOOSE j \in calls : \A k \in calls : k <= j
             admits == { j \in (from + 1)..(i - 1) : Log(t)[j].e = "admit" }
             charges == { j \in (from + 1)..(i - 1) : Log(t)[j].e = "charge" }
         IN /\ Cardinality(admits) = 1
            /\ Cardinality(charges) = 1
            /\ \A a \in admits : \A ch \in charges :
                 a < ch /\ Log(t)[a].n = Log(t)[i].n /\ Log(t)[ch].n = Log(t)[i].n
    /\ Log(t)[i].e = "decline" =>
         \A j \in (i + 1)..Len(Log(t)) : Log(t)[j].e \notin { "generate_text", "charge" }

\* C5 witness: the second generate_text of build_post has been made, and a
\* thread has had a check_budget return False.
GenerationAdmittedWitness ==
  /\ \E t \in Threads : Count(t, "generate_text") = 2 /\ th[t].site = "build_body"
  /\ \E t \in Threads : HasEvent(t, "decline")

\* C6: every text the bot submits or replies with has no negative keyword in
\* it and was sent to is_toxic, which returned False.
Outputs(t) ==
  { i \in 1..Len(Log(t)) :
      \/ Log(t)[i].e \in { "reply", "submit" }
      \/ Log(t)[i].e = "selftext" /\ Log(t)[i].t # << >> }

PostedPassedBothFilters ==
  \A t \in Threads : \A i \in Outputs(t) :
    /\ bad_keyword(Log(t)[i].t) = {}
    /\ \E j \in 1..(i - 1) :
         /\ Log(t)[j].e = "is_toxic"
         /\ Log(t)[j].t = Log(t)[i].t
         /\ ~is_toxic(Log(t)[j].n, config)

\* C7: handling an item that already has a reply of the bot makes no
\* generate_text call.
NoGenerationWhenReplied ==
  \A t \in Threads :
    (th[t].cur.kind \in { "comment", "submission" } /\ th[t].cur.replied)
      => ~HasEvent(t, "generate_text")

\* C8: once the inbox watcher has run sys.exit() on the shutdown message, no
\* thread charges the budget, calls a backend, posts or replies any more.
ShutdownStopsAll ==
  [][ th["inbox"].pc = "exited" =>
        UNCHANGED << th, tally, posts_made, comments_made >> ]_vars

\* C9: the text a loop over a batch ends with is the first candidate of the
\* batch that cleans to a non-empty text with no negative keyword and that
\* is_toxic lets through, whenever there is one.
Cleaned(t, cand) ==
  IF th[t].site = "build_title" \/ (th[t].site = "build_body" /\ th[t].pc # "pull")
    THEN clean_text(TitleLine(cand.raw))
    ELSE clean_text(cand.raw)

Acceptable(t, cand) ==
  /\ Cleaned(t, cand) # << >>
  /\ bad_keyword(Cleaned(t, cand)) = {}
  /\ ~is_toxic(cand.score, config)

FirstAcceptable(t) ==
  LET batch == th[t].stringlist
      ok == { i \in 1..Len(batch) : Acceptable(t, batch[i]) }
  IN IF ok = {} THEN 0 ELSE CHOOSE i \in ok : \A j \in ok : i <= j

FirstAcceptableChosen ==
  /\ \A t \in { "sub", "inbox" } :
       (th[t].site \in { "generate_reply", "make_comment" } /\ HasEvent(t, "generate_text"))
         => IF FirstAcceptable(t) = 0 THEN ~HasEvent(t, "reply")
            ELSE \E i \in 1..Len(Log(t)) :
                   /\ Log(t)[i].e = "reply"
                   /\ Log(t)[i].t = Cleaned(t, th[t].stringlist[FirstAcceptable(t)])
  /\ (th["writer"].site = "build_body" /\ th["writer"].pc # "pull")
       => /\ FirstAcceptable("writer") > 0
          /\ th["writer"].title
               = Cleaned("writer", th["writer"].stringlist[FirstAcceptable("writer")])
  /\ (th["writer"].site = "build_body" /\ th["writer"].pc = "pull"
        /\ FirstAcceptable("writer") > 0)
       => \E i \in 1..Len(Log("writer")) :
            /\ Log("writer")[i].e = "selftext"
            /\ Log("writer")[i].t
                 = Cleaned("writer", th["writer"].stringlist[FirstAcceptable("writer")])

\* C10: one action never requests more batches for its prompt than
\* post_tries, and when its batches all fail, with the budget admitting every
\* request, it requests exactly post_tries of them.
FirstPrompt(t) ==
  LET gens == { i \in 1..Len(Log(t)) : Log(t)[i].e = "generate_text" }
  IN Log(t)[CHOOSE i \in gens : \A j \in gens : i <= j].n

Batches(t) ==
  Cardinality({ i \in 1..Len(Log(t)) :
                  Log(t)[i].e = "generate_text" /\ Log(t)[i].n = FirstPrompt(t) })

RetriesUpToCeiling ==
  \A t \in Threads : HasEvent(t, "generate_text") =>
    /\ Batches(t) <= config.post_tries
    /\ ( /\ th[t].pc = "pull"
         /\ th[t].stringlist # << >>
         /\ ~HasEvent(t, "decline")
         /\ WithinBudget(tally, FirstPrompt(t), config.character_budget)
         /\ ~HasEvent(t, "submit")
         /\ ~HasEvent(t, "reply") )
       => Batches(t) = config.post_tries

\* C11: when every candidate the backend returned to one run of a pipeline is
\* toxic, each of its attempts ends in a further attempt below post_tries or
\* in the return of None: nothing is raised, submitted or replied, and
\* posts_made and comments_made keep their values.
AllToxic(r) ==
  /\ r.stringlist # << >>
  /\ \A k \in 1..Len(r.stringlist) : r.stringlist[k].score > config.toxicity_threshold
  /\ \A i \in 1..Len(r.log) :
       r.log[i].e = "is_toxic" => r.log[i].n > config.toxicity_threshold

NoOutput(r) ==
  \A i \in 1..Len(r.log) :
    r.log[i].e \notin { "submit", "reply", "selftext", "generate_image" }

NoCandidateWhenAllToxic ==
  [][ \A t \in Threads :
        (th[t].pc = "gen" /\ th'[t] # th[t] /\ AllToxic(th'[t]))
          => /\ th'[t].pc \in { "pull", "cb_date" }
             /\ th'[t].pc = "cb_date" => th'[t].attempt < config.post_tries
             /\ NoOutput(th'[t])
             /\ posts_made' = posts_made
             /\ comments_made' = comments_made ]_vars

\* C11 witness: make_post has returned after post_tries = 2 batches of toxic
\* candidates only.
AllToxicWitness ==
  /\ config.post_tries = 2
  /\ th["writer"].pc = "pull"
  /\ th["writer"].site = "make_post"
  /\ AllToxic(th["writer"])
  /\ Count("writer", "generate_text") = 2

\* C12: an empty or missing result of a collaborator (generate_text, query,
\* describe_image, generate_image) never ends the thread that called it: no
\* thread stops on an exception.
CollaboratorFailureAbsorbed == \A t \in Threads : th[t].pc # "crashed"

\* C13: in make_post, build_post and make_comment no candidate in which
\* bad_keyword finds a keyword is sent to is_toxic.
KeywordShortCircuits ==
  \A t \in Threads :
    th[t].site \in { "make_post", "build_title", "build_body", "make_comment" }
      => \A i \in 1..Len(Log(t)) :
           Log(t)[i].e = "is_toxic" => bad_keyword(Log(t)[i].t) = {}

\* C14: a candidate whose score is at or above toxicity_threshold is rejected:
\* the is_toxic call that precedes a reply of generate_reply or make_comment
\* returned a score below the threshold.
ThresholdRejects ==
  \A t \in { "sub", "inbox" } : \A i \in 1..Len(Log(t)) :
    Log(t)[i].e = "reply" =>
      LET calls == { j \in 1..(i - 1) : Log(t)[j].e = "is_toxic" }
      IN /\ calls # {}
         /\ Log(t)[CHOOSE j \in calls : \A k \in calls : k <= j].n
              < config.toxicity_threshold

\* C15: generate_reply puts the submission in the prompt and goes on exactly
\* when the depth of the comment is at most max_levels; otherwise it returns
\* None at once: no check_budget call, charge, generate_text call or reply
\* follows.
DepthBound ==
  LET r == th["inbox"]
      discards == { i \in 1..Len(r.log) : r.log[i].e = "discard" }
  IN r.cur.kind = "comment" =>
       /\ r.site = "generate_reply" =>
            /\ r.cur.depth <= config.max_levels
            /\ discards = {}
            /\ r.pc # "pull" =>
                 r.cost >= config.bot_backstory + 1 + PostLine(r.cur.post, 0) + 1
                             + ReplyTemplateLen + config.bot_username
       /\ \A i \in discards :
            /\ r.cur.depth > config.max_levels
            /\ r.pc = "pull"
            /\ \A j \in (i + 1)..Len(r.log) : r.log[j].e = "mark_read"
       /\ r.cur.depth > config.max_levels =>
            \A i \in 1..Len(r.log) : r.log[i].e \notin { "generate_text", "reply" }

\* C15 witness: a comment on a comment was discarded with max_levels = 1, and
\* it had passed on_topic.
DepthBoundWitness ==
  /\ config.max_levels = 1
  /\ th["inbox"].cur.kind = "comment"
  /\ th["inbox"].cur.depth = 2
  /\ HasEvent("inbox", "query")
  /\ HasEvent("inbox", "discard")

\* C16: no generate_text call is made for a comment whose body alone has more
\* words than the ceiling, so that the prompt built from it has more too.
WordCeilingDiscards ==
  (th["inbox"].cur.kind = "comment" /\ ~words_below(th["inbox"].cur.words, WordCeiling))
    => ~HasEvent("inbox", "generate_text")

\* C19: for an item whose author is the bot itself, or whose text holds a
\* negative keyword, a watcher calls no classifier, no captioning and no
\* generation backend.
Filtered(it) ==
  \/ it.me
  \/ it.kind = "comment" /\ bad_keyword(it.body) # {}
  \/ it.kind = "submission"
       /\ (bad_keyword(it.title) # {} \/ (it.is_self /\ bad_keyword(it.selftext) # {}))

CheapFiltersFirst ==
  \A t \in { "sub", "inbox" } :
    (th[t].cur.kind \in { "comment", "submission" } /\ Filtered(th[t].cur))
      => \A i \in 1..Len(Log(t)) :
           Log(t)[i].e \notin { "is_toxic", "query", "describe_image", "generate_text" }

\* C17: when make_post runs alone with budget headroom, the tally at its
\* generate_text call is the tally check_budget compared plus the length of
\* the prompt; and when the backend then returns one well-formed text without
\* a negative keyword that is_toxic passes, exactly one post is submitted,
\* posts_made goes up by exactly 1 and the tally stays at that value.
WellFormedBatch(batch) ==
  /\ Len(batch) = 1
  /\ batch[1].extract # "none"
  /\ bad_keyword(batch[1].raw) = {}
  /\ ~is_toxic(batch[1].score, config)

PostCharged ==
  (th["writer"].pc = "gen" /\ th["writer"].site = "make_post")
    => /\ tally = th["writer"].reg + PostTagLen
       /\ Log("writer")[Len(Log("writer"))] = Ev("charge", PostTagLen, << >>)

PostSubmitted ==
  ( /\ th["writer"].pc = "gen"
    /\ th["writer"].site = "make_post"
    /\ th'["writer"] # th["writer"]
    /\ WellFormedBatch(th'["writer"].stringlist)
    /\ th'["writer"].pc # "crashed" )
    => /\ th'["writer"].pc = "pull"
       /\ Cardinality({ i \in 1..Len(th'["writer"].log) :
                          th'["writer"].log[i].e = "submit" }) = 1
       /\ th'["writer"].log[Len(th'["writer"].log)]
            = Ev("submit", 0, th'["writer"].stringlist[1].raw)
       /\ posts_made' = posts_made + 1
       /\ tally' = tally

HappyPathPost == []PostCharged /\ [][PostSubmitted]_vars

\* C17 witness: make_post has submitted the one text of its first batch, the
\* tally is the length of the prompt and one post has been made.
HappyPathPostWitness ==
  /\ th["writer"].pc = "pull"
  /\ th["writer"].site = "make_post"
  /\ th["writer"].prompt = "soss"
  /\ WellFormedBatch(th["writer"].stringlist)
  /\ Count("writer", "generate_text") = 1
  /\ Count("writer", "submit") = 1
  /\ posts_made = 1
  /\ tally = PostTagLen

\* C18: once check_budget has returned False to a stage (make_post,
\* build_post, generate_reply, make_comment, on_topic), the invocation is over:
\* the thread is back at its loop, it made no further check_budget call, no
\* charge, no backend or classifier call and no post or reply after the
\* decline, and the decline is the only one of the invocation.
DeclineEndsStage ==
  \A t \in Threads : \A i \in 1..Len(Log(t)) :
    Log(t)[i].e = "decline" =>
      /\ th[t].pc = "pull"
      /\ \A j \in (i + 1)..Len(Log(t)) : Log(t)[j].e = "mark_read"
      /\ Count(t, "decline") = 1

\* C18 witness: the second attempt of make_post was declined after the first
\* was admitted and its batch rejected, and the invocation ended there.
DeclineEndsStageWitness ==
  /\ config.post_tries = 2
  /\ th["writer"].pc = "pull"
  /\ th["writer"].site = "make_post"
  /\ Count("writer", "generate_text") = 1
  /\ Log("writer")[Len(Log("writer"))].e = "decline"

\* C20: clean_text gives the text before the first double quote when there
\* is one; without a quote but with a terminator, the text up to and including
\* the last terminator; with neither, the text up to the last space; and the
\* empty text for an empty text or one of spaces only.
LastTerminator(s) ==
  CHOOSE i \in 1..Len(s) :
    s[i] \in Terminators /\ \A j \in (i + 1)..Len(s) : s[j] \notin Terminators

Blank(s) == \A i \in 1..Len(s) : s[i] = " "

CleanTextCases ==
  th["writer"].pc = "cleaned" =>
    LET generated_text == th["writer"].stringlist[1].raw
        cleanStr == th["writer"].title
    IN IF Blank(generated_text) THEN cleanStr = << >>
       ELSE IF Find(generated_text, Quote) > 0
         THEN cleanStr = Prefix(generated_text, Find(generated_text, Quote) - 1)
       ELSE IF HasTerminator(generated_text)
         THEN cleanStr = Prefix(generated_text, LastTerminator(generated_text))
       ELSE cleanStr = Prefix(generated_text, RFind(generated_text, " "))

\* C21: bad_keyword rejects a text exactly when a keyword of the negative
\* keyword set is one of the words of the text, letter case apart: a keyword
\* in upper case is rejected, and a keyword that is only part of a longer word
\* is not.
Words(text) ==
  { << i, j >> \in (1..Len(text)) \X (1..Len(text)) :
      /\ i <= j
      /\ \A k \in i..j : text[k] \in WordChars
      /\ (i = 1 \/ text[i - 1] \notin WordChars)
      /\ (j = Len(text) \/ text[j + 1] \notin WordChars) }

SameLetters(a, b) ==
  Len(a) = Len(b) /\ \A k \in 1..Len(a) : Lower(a[k]) = Lower(b[k])

HasKeywordWord(text) ==
  \E w \in Words(text) : \E kw \in negative_keywords :
    SameLetters(SubSeq(text, w[1], w[2]), kw)

KeywordWholeWord ==
  th["writer"].pc = "matched" =>
    LET found == Log("writer")[Len(Log("writer"))]
    IN /\ found.e = "bad_keyword"
       /\ found.t = th["writer"].stringlist[1].raw
       /\ (found.n = 1) <=> HasKeywordWord(found.t)

\* C21 witness: a text that ends with the keyword in upper case, after
\* another word, has been rejected.
KeywordWholeWordWitness ==
  /\ th["writer"].pc = "matched"
  /\ th["writer"].stringlist[1].raw = << " ", "K", "K", "K" >>
  /\ Log("writer")[Len(Log("writer"))] = Ev("bad_keyword", 1, << " ", "K", "K", "K" >>)

\* C22: one invocation of make_post or build_post submits at most one post,
\* and posts_made goes up by one with every sub.submit call and by nothing
\* else: a step of the scheduler adds as many to posts_made as it makes
\* submit calls.
Submits(r) == Cardinality({ i \in 1..Len(r.log) : r.log[i].e = "submit" })

PostsMadeCountsSubmits ==
  [][ /\ Submits(th'["writer"]) <= 1
      /\ posts_made' - posts_made =
           IF th["writer"].pc = "pull" THEN 0
           ELSE Submits(th'["writer"]) - Submits(th["writer"]) ]_vars

\* C23: the result of clean_text is a prefix of its input, whatever the input.
CleanIsPrefix ==
  th["writer"].pc = "cleaned" =>
    LET generated_text == th["writer"].stringlist[1].raw
        cleanStr == th["writer"].title
    IN /\ Len(cleanStr) <= Len(generated_text)
       /\ cleanStr = Prefix(generated_text, Len(cleanStr))

\* C24: in watch_inbox, an item that has been handled and is not the shutdown
\* message has been marked read exactly once, as the last thing done with it,
\* when the watcher is ready to pull the next item; and no item is marked read
\* while it is still being handled.
MarkedReadOnce ==
  LET r == th["inbox"]
  IN /\ (r.pc = "pull" /\ r.cur.kind # "none")
          => /\ Count("inbox", "mark_read") = 1
             /\ Log("inbox")[Len(Log("inbox"))].e = "mark_read"
     /\ r.pc \notin { "pull", "off" } => Count("inbox", "mark_read") = 0

\* C24 witness: a reply has been made, comments_made counted, and the comment
\* marked read once.
MarkedReadOnceWitness ==
  /\ th["inbox"].pc = "pull"
  /\ HasEvent("inbox", "reply")
  /\ comments_made = 1
  /\ Count("inbox", "mark_read") = 1

====
